---- MODULE Spec2Model ----
(***************************************************************************)
(* nginx-nr-agent: the poll task (processStats: GetStats, processOne,      *)
(* notifyNewRelic) and the upload task (processUploads, uploadOne),        *)
(* connected by the unbuffered channel nrChan, as in nginx-nr-agent.go.    *)
(***************************************************************************)
EXTENDS Integers, Sequences, FiniteSets, TLC

VARIABLES
    config,       \* the resolved Config: licenseKey, apiUrlOk
    accepted,     \* package-level running state of processOne
    sumAccepted,
    dropped,
    total,
    active,
    idle,
    current,
    pollPc,       \* position of the processStats goroutine
    upPc,         \* position of the processUploads goroutine
    quit,         \* a sender is blocked on the quit channel
    response,     \* the HTTP response seen by the latest GetStats call
    fetchResult,  \* how the latest GetStats call ended
    nrChan,       \* send queue of nrChan: the batches offered by a blocked sender
    batch,        \* the batch held by processUploads
    postResponse, \* what client.Do returned in the latest uploadOne call
    uploadResult, \* the value the latest uploadOne call returned
    polls,        \* number of poll timers that have fired
    fetches,      \* number of GetStats calls started
    readings,     \* history: the readings passed to processOne
    published,    \* history: the batches built by notifyNewRelic
    received,     \* history: ids of the batches received by processUploads
    timedOut,     \* history: ids of the batches whose hand-off timed out
    posts,        \* history: the requests POSTed to the New Relic API
    failed        \* history: ids of the batches whose upload logged an error

derived == <<accepted, sumAccepted, dropped, total, active, idle, current>>

vars == <<config, accepted, sumAccepted, dropped, total, active, idle, current,
          pollPc, upPc, quit, response, fetchResult, nrChan, batch,
          postResponse, uploadResult, polls, fetches, readings, published, received,
          timedOut, posts, failed>>

----------------------------------------------------------------------------
(* Bounds and program constants *)

MaxPolls == 3

PollSeconds == 60

----------------------------------------------------------------------------
(* Status text.  A body is a sequence of tokens; a number is carried as its *)
(* decimal digits, as it is in the text.                                    *)

Lit(s) == [kind |-> "lit", text |-> s, digits |-> <<>>]

Num(ds) == [kind |-> "num", text |-> "", digits |-> ds]

RECURSIVE Itoa(_)
Itoa(n) == IF n < 10 THEN <<n>> ELSE Append(Itoa(n \div 10), n % 10)

RECURSIVE Atoi(_)
Atoi(ds) ==
    IF ds = <<>> THEN 0
    ELSE 10 * Atoi(SubSeq(ds, 1, Len(ds) - 1)) + ds[Len(ds)]

\* The shape ParserRegexp demands, token by token; "cap" is the index of the
\* capture group a number belongs to.
ParserRegexp ==
    << [kind |-> "lit", text |-> "Active connections:", cap |-> 0],
       [kind |-> "num", text |-> "", cap |-> 1],
       [kind |-> "words", text |-> "", cap |-> 0],
       [kind |-> "num", text |-> "", cap |-> 2],
       [kind |-> "num", text |-> "", cap |-> 3],
       [kind |-> "num", text |-> "", cap |-> 4],
       [kind |-> "lit", text |-> "Reading:", cap |-> 0],
       [kind |-> "num", text |-> "", cap |-> 5],
       [kind |-> "lit", text |-> "Writing:", cap |-> 0],
       [kind |-> "num", text |-> "", cap |-> 6],
       [kind |-> "lit", text |-> "Waiting:", cap |-> 0],
       [kind |-> "num", text |-> "", cap |-> 7] >>

SubexpNames ==
    <<"", "connections", "accepts", "handled", "requests", "reading",
      "writing", "waiting">>

TokenMatches(p, t) ==
    CASE p.kind = "lit"   -> t.kind = "lit" /\ t.text = p.text
      [] p.kind = "num"   -> t.kind = "num" /\ t.digits # <<>>
      [] p.kind = "words" -> t.kind = "lit" /\ t.text # ""

\* The pattern is anchored at the start only: text after the last field is
\* not looked at.
ShapeOk(body) ==
    /\ Len(body) >= Len(ParserRegexp)
    /\ \A i \in 1..Len(ParserRegexp) : TokenMatches(ParserRegexp[i], body[i])

\* nil (<<>>) when the body does not match; otherwise the captured texts,
\* element 1 being group 1 (element 0 of the Go slice, the whole match, is
\* not kept).
FindStringSubmatch(body) ==
    IF ~ShapeOk(body) THEN <<>>
    ELSE [g \in 1..7 |->
            LET i == CHOOSE j \in 1..Len(ParserRegexp) : ParserRegexp[j].cap = g
            IN  body[i].digits]

----------------------------------------------------------------------------
(* The status endpoint: the readings it can report and the responses a     *)
(* GET can end with.                                                        *)

MetricReading(c, a, h, rq, rd, wr, wt) ==
    [Connections |-> c, Accepts |-> a, Handled |-> h, Requests |-> rq,
     Reading |-> rd, Writing |-> wr, Waiting |-> wt]

StatusBody(m) ==
    << Lit("Active connections:"), Num(Itoa(m.Connections)),
       Lit("server accepts handled requests"),
       Num(Itoa(m.Accepts)), Num(Itoa(m.Handled)), Num(Itoa(m.Requests)),
       Lit("Reading:"), Num(Itoa(m.Reading)),
       Lit("Writing:"), Num(Itoa(m.Writing)),
       Lit("Waiting:"), Num(Itoa(m.Waiting)) >>

TestReading == MetricReading(2, 31, 30, 42, 0, 10, 1)

ServerReadings ==
    { TestReading,
      MetricReading(1, 0, 0, 0, 0, 1, 0),
      MetricReading(3, 100, 100, 150, 1, 1, 2),
      MetricReading(5, 160, 158, 300, 2, 3, 1) }

EmptyBody == <<>>

TruncatedBody == SubSeq(StatusBody(TestReading), 1, 6)

NonNumericBody == [StatusBody(TestReading) EXCEPT ![4] = Lit("many")]

HtmlBody == <<Lit("<html>"), Lit("404 Not Found"), Lit("</html>")>>

HttpResponse(e, c, b) == [err |-> e, code |-> c, body |-> b]

NoResponse == HttpResponse("unset", 0, <<>>)

Responses ==
    { HttpResponse("transport", 0, <<>>), HttpResponse("read", 200, <<>>) }
    \cup { HttpResponse("none", 200, StatusBody(m)) : m \in ServerReadings }
    \cup { HttpResponse("none", 200, b) :
             b \in {EmptyBody, TruncatedBody, NonNumericBody} }
    \cup { HttpResponse("none", 500, StatusBody(TestReading)),
           HttpResponse("none", 404, HtmlBody) }

NoMetric == MetricReading(0, 0, 0, 0, 0, 0, 0)

GetStatsSwapsFields(r) ==
    IF r.err # "none" THEN [kind |-> "error", metric |-> NoMetric]
    ELSE
      LET match == FindStringSubmatch(r.body)
      IN  IF match = <<>> THEN [kind |-> "panic", metric |-> NoMetric]
          ELSE [kind |-> "ok",
                metric |-> MetricReading(Atoi(match[1]), Atoi(match[3]),
                                         Atoi(match[2]), Atoi(match[4]),
                                         Atoi(match[5]), Atoi(match[6]),
                                         Atoi(match[7]))]

\* GetStats: "error" is the (nil, err) return, "ok" the (&metric, nil) return,
\* "panic" the index-out-of-range run-time panic of match[i] on a nil match.
GetStats(r) ==
    IF r.err = "transport" THEN [kind |-> "error", metric |-> NoMetric]
    ELSE IF r.err = "read" THEN [kind |-> "error", metric |-> NoMetric]
    ELSE
      LET match == FindStringSubmatch(r.body)
      IN  IF match = <<>> THEN [kind |-> "panic", metric |-> NoMetric]
          ELSE
            LET result == [name \in {SubexpNames[i] : i \in 2..8} |->
                             LET i == CHOOSE j \in 2..8 : SubexpNames[j] = name
                             IN  Atoi(match[i - 1])]
            IN  [kind |-> "ok",
                 metric |-> MetricReading(result["connections"],
                                          result["accepts"],
                                          result["handled"],
                                          result["requests"],
                                          result["reading"],
                                          result["writing"],
                                          result["waiting"])]

----------------------------------------------------------------------------
(* processOne *)

\* Go's integer division truncates toward zero.
Quot(a, b) == IF a >= 0 THEN a \div b ELSE -((-a) \div b)

AcceptedRateUnguarded(metric, sumAcc, acc) ==
    Quot(metric.Accepts - sumAcc, PollSeconds)

AcceptedRate(metric, sumAcc, acc) ==
    IF sumAcc # 0 THEN Quot(metric.Accepts - sumAcc, PollSeconds) ELSE acc

\* processOne with the values it gives total, dropped and sumAccepted left
\* open, for the variants below.
processOneBody(metric, tot, drp, sum) ==
    /\ accepted' = AcceptedRate(metric, sumAccepted, accepted)
    /\ sumAccepted' = sum
    /\ dropped' = drp
    /\ active' = metric.Connections
    /\ idle' = metric.Waiting
    /\ total' = tot
    /\ current' = metric.Reading + metric.Writing
    /\ readings' = Append(readings, metric)

processOneTotalIsActive(metric) ==
    processOneBody(metric, metric.Connections,
                   metric.Accepts - metric.Handled - dropped, metric.Accepts)

processOneDroppedNoPrevious(metric) ==
    processOneBody(metric, metric.Connections + metric.Waiting,
                   metric.Accepts - metric.Handled, metric.Accepts)

processOneDroppedAccumulates(metric) ==
    processOneBody(metric, metric.Connections + metric.Waiting,
                   metric.Accepts - metric.Handled + dropped, metric.Accepts)

processOneKeepsLargestAccepts(metric) ==
    processOneBody(metric, metric.Connections + metric.Waiting,
                   metric.Accepts - metric.Handled - dropped,
                   IF metric.Accepts > sumAccepted THEN metric.Accepts
                   ELSE sumAccepted)

processOne(metric) ==
    /\ accepted' = AcceptedRate(metric, sumAccepted, accepted)
    /\ sumAccepted' = metric.Accepts
    /\ dropped' = metric.Accepts - metric.Handled - dropped
    /\ active' = metric.Connections
    /\ idle' = metric.Waiting
    /\ total' = active' + idle'
    /\ current' = metric.Reading + metric.Writing
    /\ readings' = Append(readings, metric)

----------------------------------------------------------------------------
(* notifyNewRelic and the hand-off over nrChan *)

\* id stands for the identity of the pointer &batch.
NrMetric(n, acc, drp, tot, act, idl, cur) ==
    [id |-> n, Accepted |-> acc, Dropped |-> drp, Total |-> tot,
     Active |-> act, Idle |-> idl, Current |-> cur,
     SummaryIdle |-> idl, SummaryActive |-> act]

NoBatch == NrMetric(0, 0, 0, 0, 0, 0, 0)

\* Builds the batch and enters the select: the send waits in nrChan's queue.
\* Called after processOne in the same step, so it reads the new values.
notifyNewRelic ==
    LET b == NrMetric(Len(published) + 1, accepted', dropped', total',
                      active', idle', current')
    IN  /\ nrChan' = Append(nrChan, b)
        /\ published' = Append(published, b)
        /\ pollPc' = "notify"

Alive == pollPc # "panicked"

ReceiveLeavesOffer ==
    /\ pollPc = "notify"
    /\ upPc = "recv"
    /\ nrChan # <<>>
    /\ batch' = Head(nrChan)
    /\ received' = Append(received, Head(nrChan).id)
    /\ upPc' = "upload"
    /\ pollPc' = "select"
    /\ UNCHANGED <<config, derived, quit, response, fetchResult, nrChan,
                   postResponse, uploadResult, polls, fetches, readings,
                   published, timedOut, posts, failed>>

\* case nrChan <- &batch: the receiver waiting in "for batch := range nrChan"
\* takes the batch; both goroutines go on.
Receive ==
    /\ pollPc = "notify"
    /\ upPc = "recv"
    /\ nrChan # <<>>
    /\ batch' = Head(nrChan)
    /\ nrChan' = Tail(nrChan)
    /\ received' = Append(received, Head(nrChan).id)
    /\ upPc' = "upload"
    /\ pollPc' = "select"
    /\ UNCHANGED <<config, derived, quit, response, fetchResult, postResponse,
                   uploadResult, polls, fetches, readings, published, timedOut, posts, failed>>

NotifyTimeoutKeepsOffer ==
    /\ pollPc = "notify"
    /\ upPc # "recv"
    /\ timedOut' = timedOut \cup {Len(published)}
    /\ pollPc' = "select"
    /\ UNCHANGED <<config, derived, upPc, quit, response, fetchResult, batch,
                   nrChan, postResponse, uploadResult, polls, fetches, readings,
                   published, received, posts, failed>>

NotifyNeverTimesOut ==
    /\ pollPc = "notify"
    /\ upPc # "recv"
    /\ UNCHANGED vars

\* case <-time.After(1 * time.Second): no receiver took the batch for the
\* whole second; the select withdraws the send and the batch is dropped.
NotifyTimeout ==
    /\ pollPc = "notify"
    /\ upPc # "recv"
    /\ nrChan' = <<>>
    /\ timedOut' = timedOut \cup {Len(published)}
    /\ pollPc' = "select"
    /\ UNCHANGED <<config, derived, upPc, quit, response, fetchResult, batch,
                   postResponse, uploadResult, polls, fetches, readings, published,
                   received, posts, failed>>

----------------------------------------------------------------------------
(* processUploads and uploadOne *)

AgentGuid == "com.nginx.newrelic-agent"

AgentVersion == "2.0.1"

\* The struct tags of NrMetric, field by field.
NrMetricTags ==
    [Accepted      |-> "Component/Connections/Accepted[Connections/sec]",
     Dropped       |-> "Component/Connections/Dropped[Connections/sec]",
     Total         |-> "Component/Requests/Total[Connections]",
     Active        |-> "Component/Connections/Active[Connections]",
     Idle          |-> "Component/Connections/Idle[Connections]",
     Current       |-> "Component/Requests/Current[Requests]",
     SummaryIdle   |-> "Component/ConnSummary/Idle[Connections]",
     SummaryActive |-> "Component/ConnSummary/Active[Connections]"]

\* The reflection loop of processUploads: tag -> value of the tagged field.
Metrics(b) ==
    [tag \in {NrMetricTags[f] : f \in DOMAIN NrMetricTags} |->
        b[CHOOSE f \in DOMAIN NrMetricTags : NrMetricTags[f] = tag]]

NewNrComponent(metrics) ==
    [guid |-> AgentGuid, duration |-> PollSeconds, name |-> config.appName,
     metrics |-> metrics]

NewNrUpload(components) ==
    [agent |-> [version |-> AgentVersion, host |-> "hostname", pid |-> "pid"],
     components |-> components]

\* What client.Do can return: a transport error, or a response with a status
\* code and a body.
PostResponse(e, c, b) == [err |-> e, code |-> c, body |-> b]

NoPost == PostResponse("unset", 0, "")

PostResponses ==
    { PostResponse("transport", 0, "") }
    \cup { PostResponse("none", c, "{}") : c \in {199, 200, 299} }
    \cup { PostResponse("none", c, "denied") : c \in {300, 500} }

UploadError(k, c, b) == [err |-> k, code |-> c, body |-> b]

Nil == UploadError("nil", 0, "")

\* json.Marshal cannot fail on NrUpload (strings and int64 only), so the
\* first early return is never taken; http.NewRequest fails when
\* config.NewRelicApiUrl does not parse.
uploadOneOffByOne(o) ==
    IF ~config.apiUrlOk THEN UploadError("request", 0, "")
    ELSE IF o.err # "none" THEN UploadError("transport", 0, "")
    ELSE IF o.code >= 299 \/ o.code < 200
         THEN UploadError("status", o.code, o.body)
    ELSE Nil

uploadOne(o) ==
    IF ~config.apiUrlOk THEN UploadError("request", 0, "")
    ELSE IF o.err # "none" THEN UploadError("transport", 0, "")
    ELSE IF o.code > 299 \/ o.code < 200
         THEN UploadError("status", o.code, o.body)
    ELSE Nil

UploadRetriesOnError ==
    /\ Alive
    /\ upPc = "upload"
    /\ \E o \in PostResponses :
         /\ postResponse' = IF config.apiUrlOk THEN o ELSE NoPost
         /\ uploadResult' = uploadOne(o)
         /\ upPc' = IF uploadOne(o) = Nil THEN "recv" ELSE "upload"
         /\ failed' = IF uploadOne(o) # Nil THEN failed \cup {batch.id}
                      ELSE failed
    /\ posts' = IF config.apiUrlOk
                THEN Append(posts, [id |-> batch.id,
                        upload |-> NewNrUpload(<<NewNrComponent(Metrics(batch))>>)])
                ELSE posts
    /\ UNCHANGED <<config, derived, pollPc, quit, response, fetchResult,
                   nrChan, batch, polls, fetches, readings, published, received,
                   timedOut>>

UploadReadsGlobals ==
    /\ Alive
    /\ upPc = "upload"
    /\ \E o \in PostResponses :
         /\ postResponse' = IF config.apiUrlOk THEN o ELSE NoPost
         /\ uploadResult' = uploadOne(o)
         /\ failed' = IF uploadOne(o) # Nil THEN failed \cup {batch.id}
                      ELSE failed
    /\ posts' = IF config.apiUrlOk
                THEN Append(posts, [id |-> batch.id,
                        upload |-> NewNrUpload(<<NewNrComponent(Metrics(
                            NrMetric(batch.id, accepted, dropped, total,
                                     active, idle, current)))>>)])
                ELSE posts
    /\ upPc' = "recv"
    /\ UNCHANGED <<config, derived, pollPc, quit, response, fetchResult,
                   nrChan, batch, polls, fetches, readings, published,
                   received, timedOut>>

\* The body of the range loop: build the upload, call uploadOne, log an
\* error if there is one, wait for the next batch.
Upload ==
    /\ Alive
    /\ upPc = "upload"
    /\ \E o \in PostResponses :
         /\ postResponse' = IF config.apiUrlOk THEN o ELSE NoPost
         /\ uploadResult' = uploadOne(o)
         /\ failed' = IF uploadOne(o) # Nil THEN failed \cup {batch.id}
                      ELSE failed
    /\ posts' = IF config.apiUrlOk
                THEN Append(posts, [id |-> batch.id,
                        upload |-> NewNrUpload(<<NewNrComponent(Metrics(batch))>>)])
                ELSE posts
    /\ upPc' = "recv"
    /\ UNCHANGED <<config, derived, pollPc, quit, response, fetchResult,
                   nrChan, batch, polls, fetches, readings, published, received,
                   timedOut>>

----------------------------------------------------------------------------
(* processStats *)

uploadSide == <<upPc, batch, postResponse, uploadResult, received, posts, failed>>

OnFetchErrorProcesses ==
    /\ processOne(NoMetric)
    /\ pollPc' = "backoff"
    /\ UNCHANGED <<nrChan, published>>

\* if err != nil: log, sleep ErrorBackoffTime, continue.
OnFetchError ==
    /\ pollPc' = "backoff"
    /\ UNCHANGED <<derived, readings, nrChan, published>>

\* case <-time.After(PollInterval): the timer created on entering the select
\* fires and the GetStats call starts.  A quit sender that is already waiting
\* is served first: a fresh timer is never ready before it.
TimerFires ==
    /\ pollPc = "select"
    /\ ~quit
    /\ polls < MaxPolls
    /\ polls' = polls + 1
    /\ fetches' = fetches + 1
    /\ pollPc' = "fetching"
    /\ UNCHANGED <<config, derived, quit, response, fetchResult, nrChan,
                   readings, published, timedOut, uploadSide>>

\* GetStats returns an error.
PollFetchError ==
    /\ pollPc = "fetching"
    /\ \E r \in Responses :
         /\ GetStats(r).kind = "error"
         /\ response' = r
         /\ fetchResult' = "error"
    /\ OnFetchError
    /\ UNCHANGED <<config, quit, polls, fetches, timedOut, uploadSide>>

\* GetStats panics: nothing recovers, the process dies.
PollFetchPanic ==
    /\ pollPc = "fetching"
    /\ \E r \in Responses :
         /\ GetStats(r).kind = "panic"
         /\ response' = r
         /\ fetchResult' = "panic"
    /\ pollPc' = "panicked"
    /\ UNCHANGED <<config, derived, quit, nrChan, polls, fetches, readings,
                   published, timedOut, uploadSide>>

\* GetStats returns a reading; processOne, then notifyNewRelic up to its
\* select.
PollReading ==
    /\ pollPc = "fetching"
    /\ \E r \in Responses :
         /\ GetStats(r).kind = "ok"
         /\ response' = r
         /\ fetchResult' = "ok"
         /\ processOne(GetStats(r).metric)
    /\ notifyNewRelic
    /\ UNCHANGED <<config, quit, polls, fetches, timedOut, uploadSide>>

\* time.Sleep(ErrorBackoffTime) returns.
BackoffDone ==
    /\ pollPc = "backoff"
    /\ pollPc' = "select"
    /\ UNCHANGED <<config, derived, upPc, quit, response, fetchResult, nrChan,
                   batch, postResponse, uploadResult, polls, fetches, readings,
                   published, received, timedOut, posts, failed>>

\* The environment sends the shutdown signal on the quit channel.
SendQuit ==
    /\ Alive
    /\ pollPc # "stopped"
    /\ ~quit
    /\ quit' = TRUE
    /\ UNCHANGED <<config, derived, pollPc, upPc, response, fetchResult,
                   nrChan, batch, postResponse, uploadResult, polls, fetches, readings,
                   published, received, timedOut, posts, failed>>

\* case <-quit: return.
ObserveQuit ==
    /\ pollPc = "select"
    /\ quit
    /\ quit' = FALSE
    /\ pollPc' = "stopped"
    /\ UNCHANGED <<config, derived, upPc, response, fetchResult, nrChan,
                   batch, postResponse, uploadResult, polls, fetches, readings,
                   published, received, timedOut, posts, failed>>

----------------------------------------------------------------------------
(* main *)

Configs ==
    { [appName |-> "NGiNX", licenseKey |-> k, apiUrlOk |-> u] :
        k \in {"", "license"}, u \in BOOLEAN }

InitStartsUploadsAlways ==
    /\ config \in Configs
    /\ accepted = 0
    /\ sumAccepted = 0
    /\ dropped = 0
    /\ total = 0
    /\ active = 0
    /\ idle = 0
    /\ current = 0
    /\ pollPc = "select"
    /\ upPc = "recv"
    /\ quit = FALSE
    /\ response = NoResponse
    /\ fetchResult = "none"
    /\ nrChan = <<>>
    /\ batch = NoBatch
    /\ postResponse = NoPost
    /\ uploadResult = Nil
    /\ polls = 0
    /\ fetches = 0
    /\ readings = <<>>
    /\ published = <<>>
    /\ received = <<>>
    /\ timedOut = {}
    /\ posts = <<>>
    /\ failed = {}

Init ==
    /\ config \in Configs
    /\ accepted = 0
    /\ sumAccepted = 0
    /\ dropped = 0
    /\ total = 0
    /\ active = 0
    /\ idle = 0
    /\ current = 0
    /\ pollPc = "select"
    /\ upPc = IF config.licenseKey = "" THEN "absent" ELSE "recv"
    /\ quit = FALSE
    /\ response = NoResponse
    /\ fetchResult = "none"
    /\ nrChan = <<>>
    /\ batch = NoBatch
    /\ postResponse = NoPost
    /\ uploadResult = Nil
    /\ polls = 0
    /\ fetches = 0
    /\ readings = <<>>
    /\ published = <<>>
    /\ received = <<>>
    /\ timedOut = {}
    /\ posts = <<>>
    /\ failed = {}

Next ==
    \/ TimerFires
    \/ PollFetchError
    \/ PollFetchPanic
    \/ PollReading
    \/ BackoffDone
    \/ Receive
    \/ NotifyTimeout
    \/ Upload
    \/ SendQuit
    \/ ObserveQuit

Spec == Init /\ [][Next]_vars

\* The select of notifyNewRelic returns as soon as one of its cases is ready,
\* and the one-second timer makes one ready.
LiveSpec == Spec /\ WF_vars(Receive \/ NotifyTimeout)

\* The poll task keeps running: GetStats returns within its 7 s timeout, the
\* backoff sleep ends, the select of notifyNewRelic returns, and a waiting
\* quit sender is served when the task is at its select.
FairSpec ==
    /\ Spec
    /\ WF_vars(PollFetchError \/ PollFetchPanic \/ PollReading)
    /\ WF_vars(BackoffDone)
    /\ WF_vars(Receive \/ NotifyTimeout)
    /\ WF_vars(ObserveQuit)

----------------------------------------------------------------------------
(* Properties *)

Range(q) == {q[i] : i \in 1..Len(q)}

\* Number of batches processUploads has finished with.
UploadsDone == Len(received) - (IF upPc = "upload" THEN 1 ELSE 0)

\* Number of requests POSTed for the batch with this id.
PostsFor(id) == Cardinality({i \in 1..Len(posts) : posts[i].id = id})

\* C1: after the first processOne call of the process, accepted is 0,
\* whatever the accepts count of the reading is.
C1_FirstCallRateZero == Len(readings) = 1 => accepted = 0

C1_Witness ==
    /\ Len(readings) = 1
    /\ readings[1].Accepts >= PollSeconds
    /\ accepted = 0

\* C2: after every processOne call but the first, accepted is the truncated
\* quotient of (accepts of this reading - accepts of the previous reading)
\* by PollSeconds, also when the previous reading had accepts = 0.
C2_RateFromPreviousReading ==
    Len(readings) >= 2 =>
        accepted = Quot(readings[Len(readings)].Accepts
                          - readings[Len(readings) - 1].Accepts, PollSeconds)

\* C3: a body that does not have the status-block shape makes GetStats
\* return an error; it never aborts the process.
C3_MalformedBodyIsError ==
    (response.err = "none" /\ ~ShapeOk(response.body)) =>
        fetchResult = "error"

\* C4: no error ends the poll task or the process: the poll task is at its
\* select, in GetStats, in its backoff or in notifyNewRelic, or has stopped on the quit
\* signal.
C4_ErrorsNeverTerminate ==
    pollPc \in {"select", "fetching", "backoff", "notify", "stopped"}

\* C5: a tick in which GetStats returns an error, backoff included, changes
\* none of the running values, calls processOne for no reading and publishes
\* nothing.
C5_FailedFetchFrame ==
    [][ ((pollPc = "fetching" /\ fetchResult' = "error") \/ pollPc = "backoff")
          => UNCHANGED <<derived, readings, published, nrChan>> ]_vars

C5_Witness ==
    /\ pollPc = "backoff"
    /\ fetchResult = "error"
    /\ Len(readings) >= 1
    /\ sumAccepted # 0

\* C6: every call of notifyNewRelic returns: the poll task blocked in its
\* select is eventually back at the select of processStats.
C6_NotifyReturns == (pollPc = "notify") ~> (pollPc = "select")

C6_Witness ==
    /\ pollPc = "select"
    /\ Len(published) >= 1
    /\ Len(published) \in timedOut
    /\ upPc \in {"absent", "upload"}

\* C7: at most one batch is offered on nrChan at any time, and a batch whose
\* hand-off timed out is neither left on the channel nor ever received.
C7_AtMostOneInFlight ==
    /\ Len(nrChan) <= 1
    /\ \A id \in timedOut :
         /\ id \notin Range(received)
         /\ \A i \in 1..Len(nrChan) : nrChan[i].id # id

C7_Witness ==
    \E id \in timedOut : \E later \in Range(received) : later > id

\* C8: a response with a status code other than 200, or an I/O error, makes
\* GetStats return an error, whatever the body is.
C8_Non200IsFetchFailure ==
    (response # NoResponse /\ (response.err # "none" \/ response.code # 200))
        => fetchResult = "error"

\* C9: uploadOne returns nil exactly when the POST completed with a status
\* code in 200..299; another code gives an error carrying the code and the
\* body, a transport failure gives an error.
C9_SuccessIff2xx ==
    /\ (postResponse.err = "none" /\ postResponse.code \in 200..299)
          => uploadResult = Nil
    /\ (postResponse.err = "none" /\ postResponse.code \notin 200..299)
          => uploadResult =
               UploadError("status", postResponse.code, postResponse.body)
    /\ postResponse.err = "transport" => uploadResult.err = "transport"
    /\ (UploadsDone >= 1 /\ uploadResult = Nil)
          => (postResponse.err = "none" /\ postResponse.code \in 200..299)

C9_Witness ==
    /\ postResponse.err = "none"
    /\ postResponse.code = 299
    /\ uploadResult = Nil

\* C10 as stated: every batch processUploads has finished with caused
\* exactly one POST.
C10_ExactlyOnePost ==
    \A i \in 1..UploadsDone : PostsFor(received[i]) = 1

\* C10 as amended: every batch received causes one uploadOne call and at
\* most one POST (one when the request could be built, none when
\* http.NewRequest rejects the configured URL), none before uploadOne runs;
\* and after an upload error the loop is waiting for, or working on, a batch.
C10_NoRetryLoopContinues ==
    /\ \A i \in 1..Len(received) :
         PostsFor(received[i]) =
            (IF i <= UploadsDone /\ config.apiUrlOk THEN 1 ELSE 0)
    /\ \A id \in failed :
         /\ upPc \in {"recv", "upload"}
         /\ \E i \in 1..UploadsDone : received[i] = id

C10_Witness ==
    \E id \in failed :
        \E i \in 1..UploadsDone : received[i] > id /\ PostsFor(received[i]) = 1

\* The snapshot the poll task built for this batch id.
Snapshot(id) == published[id]

\* accepts - handled of the reading of the n-th processOne call.
Unhandled(n) == readings[n].Accepts - readings[n].Handled

\* dropped after the n-th processOne call, as the n-th snapshot recorded it;
\* 0 before the first call.
DroppedAfter(n) == IF n = 0 THEN 0 ELSE published[n].Dropped

\* C11: with no license key the upload task does not exist and nothing is
\* received or POSTed, while every reading still goes through processOne
\* and notifyNewRelic once, its snapshot being dropped at the hand-off.
C11_NoKeyNoUploads ==
    config.licenseKey = "" =>
        /\ upPc = "absent"
        /\ received = <<>>
        /\ posts = <<>>
        /\ failed = {}
        /\ Len(published) = Len(readings)
        /\ \A id \in 1..Len(published) :
             id \in timedOut \/ (id = Len(published) /\ pollPc = "notify")

C11_Witness ==
    /\ config.licenseKey = ""
    /\ Len(readings) = 3
    /\ timedOut = {1, 2, 3}
    /\ posts = <<>>

\* C12: once a shutdown signal waits on the quit channel, the poll task
\* eventually reaches Stopped.
C12_QuitLeadsToStopped == quit ~> (pollPc = "stopped")

\* C13: every snapshot has Total = Active + Idle, Active = connections and
\* Idle = waiting of the reading it was derived from, and Current = reading +
\* writing of that reading.
C13_SnapshotGauges ==
    \A i \in 1..Len(published) :
        /\ published[i].Total = published[i].Active + published[i].Idle
        /\ published[i].Active = readings[i].Connections
        /\ published[i].Idle = readings[i].Waiting
        /\ published[i].Current = readings[i].Reading + readings[i].Writing

C13_Witness ==
    /\ Len(published) >= 1
    /\ published[Len(published)].Active = 5
    /\ published[Len(published)].Idle = 1
    /\ published[Len(published)].Total = 6
    /\ published[Len(published)].Current = 5

\* C14: after every processOne call, dropped = accepts - handled of the
\* reading - dropped before the call; dropped is 0 before the first call.
C14_DroppedRule ==
    /\ Len(readings) = 0 => dropped = 0
    /\ \A n \in 1..Len(readings) :
         DroppedAfter(n) = Unhandled(n) - DroppedAfter(n - 1)
    /\ dropped = DroppedAfter(Len(readings))

C14_Witness ==
    /\ Len(readings) >= 2
    /\ DroppedAfter(Len(readings) - 1) # 0
    /\ Unhandled(Len(readings)) # 0
    /\ dropped = Unhandled(Len(readings)) - DroppedAfter(Len(readings) - 1)

\* C15: for a 200 response whose body is the status block of m, GetStats
\* returns exactly m: connections, accepts, handled, requests, reading,
\* writing, waiting in that order (2, 31, 30, 42, 0, 10, 1 for the block of
\* the test).
C15_ParsesFieldsInOrder ==
    (fetchResult = "ok" /\ response.code = 200) =>
        /\ \E m \in ServerReadings :
             /\ response.body = StatusBody(m)
             /\ readings[Len(readings)] = m
        /\ response.body = StatusBody(TestReading) =>
             readings[Len(readings)] = MetricReading(2, 31, 30, 42, 0, 10, 1)

C15_Witness ==
    /\ fetchResult = "ok"
    /\ response.code = 200
    /\ response.body = StatusBody(TestReading)
    /\ readings[Len(readings)] = MetricReading(2, 31, 30, 42, 0, 10, 1)

\* C16: the first GetStats call starts before any poll timer has fired, and
\* every timer that fires starts one more: fetches = polls + 1 once the
\* first fetch has started.
C16_FirstFetchImmediate == fetches >= 1 => fetches = polls + 1

\* C17: the metrics of every POSTed upload are the values the poll task had
\* derived when notifyNewRelic built the batch, also when processOne ran
\* again before the POST.
C17_PostedMetricsAreSnapshot ==
    \A i \in 1..Len(posts) :
        /\ Len(posts[i].upload.components) = 1
        /\ posts[i].upload.components[1].metrics
             = Metrics(Snapshot(posts[i].id))
        /\ Snapshot(posts[i].id).id = posts[i].id

\* The hand-off of batch id + 1 timed out, so the upload task was still
\* working on batch id when processOne had run again; its POST came later.
C17_Witness ==
    \E i \in 1..Len(posts) :
        /\ posts[i].id + 1 \in timedOut
        /\ Snapshot(posts[i].id + 1).Accepted # Snapshot(posts[i].id).Accepted
        /\ Snapshot(posts[i].id + 1).Dropped # Snapshot(posts[i].id).Dropped
        /\ posts[i].upload.components[1].metrics
             = Metrics(Snapshot(posts[i].id))

\* C18: after every processOne call sumAccepted is the accepts of the reading
\* of that call, the first call and a call with a smaller accepts included.
C18_BaselineIsLastAccepts ==
    Len(readings) >= 1 => sumAccepted = readings[Len(readings)].Accepts

C18_Witness ==
    /\ Len(readings) >= 2
    /\ readings[Len(readings)].Accepts < readings[Len(readings) - 1].Accepts
    /\ sumAccepted = readings[Len(readings)].Accepts

\* C19: one snapshot per reading, each received at most once or dropped,
\* never both; the received ids are a subsequence, in publish order, of the
\* published ids; a snapshot neither received nor dropped is the one being
\* offered.
C19_ReceivedOnceOrDropped ==
    /\ Len(published) = Len(readings)
    /\ \A i \in 1..Len(published) : published[i].id = i
    /\ \A i \in 1..Len(received) : received[i] \in 1..Len(published)
    /\ \A i, j \in 1..Len(received) : i < j => received[i] < received[j]
    /\ timedOut \subseteq 1..Len(published)
    /\ timedOut \cap Range(received) = {}
    /\ \A id \in 1..Len(published) :
         (id \notin timedOut /\ id \notin Range(received))
            => (id = Len(published) /\ pollPc = "notify")

C19_Witness ==
    /\ received = <<1, 3>>
    /\ timedOut = {2}

\* C20: dropped after call n + 2 is dropped after call n, plus accepts -
\* handled of reading n + 2, minus accepts - handled of reading n + 1; when
\* accepts - handled is the same d in both, dropped after n + 2 is dropped
\* after n and the two consecutive values sum to d.
C20_DroppedPeriodTwo ==
    \A n \in 0..(Len(readings) - 2) :
        /\ DroppedAfter(n + 2)
             = DroppedAfter(n) + Unhandled(n + 2) - Unhandled(n + 1)
        /\ Unhandled(n + 2) = Unhandled(n + 1) =>
             /\ DroppedAfter(n + 2) = DroppedAfter(n)
             /\ DroppedAfter(n + 1) + DroppedAfter(n + 2) = Unhandled(n + 1)

C20_Witness ==
    /\ Len(readings) = 3
    /\ Unhandled(1) = 2
    /\ Unhandled(2) = 2
    /\ Unhandled(3) = 2
    /\ DroppedAfter(1) = 2
    /\ DroppedAfter(2) = 0
    /\ DroppedAfter(3) = 2

====
